---- MODULE Spec2Model ----
(***************************************************************************)
(* protoc-gen-pluginexample (src/main.go): a protoc plugin that reads one  *)
(* CodeGeneratorRequest from stdin and answers with three generated files: *)
(* a JSON dump of the request, a stats report and a graphviz entity graph. *)
(*                                                                         *)
(* Strings are TLA+ strings and fmt.Sprintf("%s.%s", a, b) is the          *)
(* concatenation a \o "." \o b, so that an empty package really yields a   *)
(* doubled dot.  A line written with Fprintf to one of the two buffers is  *)
(* a record of the values the format verb substitutes.                     *)
(***************************************************************************)
EXTENDS Integers, Sequences, FiniteSets, TLC

(***************************************************************************)
(* Bounds of the explored inputs.                                          *)
(***************************************************************************)
\* every request of at most this many elements (files, services, methods,
\* messages, fields together) is explored
MaxSize == 4
\* number of times processRequest is invoked on the same request
MaxRuns == 2

Names == {"A", "B"}
Packages == {"", "p"}

(***************************************************************************)
(* Descriptor values as protoc hands them over.  protoc resolves a type    *)
(* reference to the leading-dot name of the target: ".pkg.Outer.Inner",    *)
(* and ".Outer.Inner" for a file without a package.                        *)
(***************************************************************************)
CanonicalName(pkg, path) ==
    IF pkg = "" THEN "." \o path ELSE "." \o pkg \o "." \o path

Field(t, tn) == [type |-> t, typeName |-> tn]
Message(n, fs, ns) == [name |-> n, field |-> fs, nestedType |-> ns]
Method(n, i, o) == [name |-> n, inputType |-> i, outputType |-> o]
Service(n, ms) == [name |-> n, method |-> ms]
FileDescriptor(p, ss, ms) == [package |-> p, service |-> ss, messageType |-> ms]

FieldPool(pkg) ==
    { Field("TYPE_STRING", ""),
      Field("TYPE_ENUM", CanonicalName(pkg, "A")),
      Field("TYPE_MESSAGE", ""),
      Field("TYPE_MESSAGE", CanonicalName(pkg, "A")),
      Field("TYPE_MESSAGE", CanonicalName(pkg, "B")),
      Field("TYPE_MESSAGE", CanonicalName(pkg, "A.B")) }

MethodPool(pkg) ==
    { Method(n, CanonicalName(pkg, "A"), o) :
        n \in Names, o \in {CanonicalName(pkg, "A"), CanonicalName(pkg, "A.B")} }

RECURSIVE FieldSeqs(_, _)
FieldSeqs(pkg, n) ==
    IF n = 0 THEN {<<>>}
    ELSE {<<f>> \o s : f \in FieldPool(pkg), s \in FieldSeqs(pkg, n - 1)}

RECURSIVE MethodSeqs(_, _)
MethodSeqs(pkg, n) ==
    IF n = 0 THEN {<<>>}
    ELSE {<<m>> \o s : m \in MethodPool(pkg), s \in MethodSeqs(pkg, n - 1)}

RECURSIVE MessagesOfSize(_, _)
RECURSIVE MessageSeqs(_, _)
\* the messages of package pkg made of exactly n elements
MessagesOfSize(pkg, n) ==
    UNION { [name : Names, field : FieldSeqs(pkg, k),
             nestedType : MessageSeqs(pkg, n - 1 - k)] : k \in 0..(n - 1) }

MessageSeqs(pkg, n) ==
    IF n = 0 THEN {<<>>}
    ELSE UNION { {<<m>> \o s : m \in MessagesOfSize(pkg, k),
                               s \in MessageSeqs(pkg, n - k)} : k \in 1..n }

ServicesOfSize(pkg, n) == [name : Names, method : MethodSeqs(pkg, n - 1)]

RECURSIVE ServiceSeqs(_, _)
ServiceSeqs(pkg, n) ==
    IF n = 0 THEN {<<>>}
    ELSE UNION { {<<v>> \o s : v \in ServicesOfSize(pkg, k),
                               s \in ServiceSeqs(pkg, n - k)} : k \in 1..n }

FilesOfSize(n) ==
    UNION { UNION { [package : {pkg}, service : ServiceSeqs(pkg, k),
                     messageType : MessageSeqs(pkg, n - 1 - k)] : k \in 0..(n - 1) }
            : pkg \in Packages }

RECURSIVE FileSeqs(_)
FileSeqs(n) ==
    IF n = 0 THEN {<<>>}
    ELSE UNION { {<<f>> \o s : f \in FilesOfSize(k), s \in FileSeqs(n - k)} : k \in 1..n }

BoundedRequests == UNION { FileSeqs(n) : n \in 0..MaxSize }

\* src/testdata/person.proto as protoc describes it
PersonFile ==
    FileDescriptor("testdata",
      << Service("PersonService",
           << Method("GetPerson", ".testdata.GetPersonRequest", ".testdata.Person"),
              Method("ListPersons", ".testdata.ListPersonsRequest", ".testdata.PersonList") >>) >>,
      << Message("Person",
           << Field("TYPE_STRING", ""), Field("TYPE_MESSAGE", ".testdata.AddressInfo"),
              Field("TYPE_STRING", "") >>, <<>>),
         Message("AddressInfo",
           << Field("TYPE_STRING", ""), Field("TYPE_STRING", ""), Field("TYPE_STRING", ""),
              Field("TYPE_STRING", ""), Field("TYPE_MESSAGE", ".testdata.AddressInfo.ZipCode") >>,
           << Message("ZipCode", << Field("TYPE_STRING", ""), Field("TYPE_STRING", "") >>, <<>>) >>),
         Message("GetPersonRequest", << Field("TYPE_STRING", "") >>, <<>>),
         Message("ListPersonsRequest", << Field("TYPE_STRING", ""), Field("TYPE_STRING", "") >>, <<>>),
         Message("PersonList", << Field("TYPE_MESSAGE", ".testdata.Person") >>, <<>>) >>)

\* two messages that reference each other and themselves, with a nested
\* message three levels deep that refers back to the outermost one
CyclicFile(pkg) ==
    FileDescriptor(pkg, <<>>,
      << Message("A",
           << Field("TYPE_MESSAGE", CanonicalName(pkg, "A")),
              Field("TYPE_MESSAGE", CanonicalName(pkg, "B")) >>,
           << Message("B", << Field("TYPE_MESSAGE", CanonicalName(pkg, "A.B.A")) >>,
                << Message("A", << Field("TYPE_MESSAGE", CanonicalName(pkg, "A")) >>, <<>>) >>),
              Message("A", << Field("TYPE_ENUM", CanonicalName(pkg, "B")) >>, <<>>) >>),
         Message("B", << Field("TYPE_MESSAGE", ""),
                         Field("TYPE_MESSAGE", CanonicalName(pkg, "A")) >>, <<>>) >>)

\* two services with two methods each, followed by two messages
ServiceFile(pkg) ==
    FileDescriptor(pkg,
      << Service("A", << Method("A", CanonicalName(pkg, "B"), CanonicalName(pkg, "B")),
                         Method("B", CanonicalName(pkg, "B"), CanonicalName(pkg, "B.A")) >>),
         Service("C", << Method("B", CanonicalName(pkg, "B.A"), CanonicalName(pkg, "B")),
                         Method("A", CanonicalName(pkg, "B"), CanonicalName(pkg, "B")) >>) >>,
      << Message("B", << Field("TYPE_MESSAGE", CanonicalName(pkg, "B.A")),
                         Field("TYPE_MESSAGE", CanonicalName(pkg, "B")) >>,
           << Message("A", <<>>, <<>>) >>),
         Message("D", << Field("TYPE_MESSAGE", CanonicalName(pkg, "B")) >>, <<>>) >>)

Scenarios ==
    { <<PersonFile>>, <<PersonFile, PersonFile>>,
      <<CyclicFile("p")>>, <<CyclicFile("")>>,
      <<ServiceFile("p")>>, <<ServiceFile("")>>,
      <<ServiceFile("p"), CyclicFile("p")>>, <<CyclicFile("q"), ServiceFile("")>> }

Requests == BoundedRequests \cup Scenarios

(***************************************************************************)
(* The wire format (proto.Marshal / proto.Unmarshal, an external library): *)
(* the bytes of a message are the message under a wire tag; anything else  *)
(* does not decode.                                                        *)
(***************************************************************************)
Marshal(m) == <<"wire", m>>
Garbage == <<"junk">>
Decodable(bytes) == Len(bytes) = 2 /\ bytes[1] = "wire"
Unmarshal(bytes) == bytes[2]

(***************************************************************************)
(* recordRequest                                                           *)
(***************************************************************************)
GeneratedFile(n, c) == [name |-> n, content |-> c]

ProtojsonFormat(m) == <<"json", m>>

recordRequest(r) == GeneratedFile("request_dump.json", ProtojsonFormat(r))

(***************************************************************************)
(* recordStats                                                             *)
(***************************************************************************)
Digit(d) ==
    CASE d = 0 -> "0" [] d = 1 -> "1" [] d = 2 -> "2" [] d = 3 -> "3" [] d = 4 -> "4"
      [] d = 5 -> "5" [] d = 6 -> "6" [] d = 7 -> "7" [] d = 8 -> "8" [] d = 9 -> "9"

\* the %d verb on a non-negative int
RECURSIVE FormatInt(_)
FormatInt(n) == IF n < 10 THEN Digit(n) ELSE FormatInt(n \div 10) \o Digit(n % 10)

ZeroStats == [NumFiles |-> 0, NumServices |-> 0, NumMethods |-> 0,
              NumMessages |-> 0, NumFields |-> 0]

\* for _, srv := range f.GetService()
RECURSIVE StatsServices(_, _)
StatsServices(stats, services) ==
    IF services = <<>> THEN stats
    ELSE StatsServices([stats EXCEPT !.NumServices = @ + 1,
                                     !.NumMethods = @ + Len(Head(services).method)],
                       Tail(services))

\* StatsMessages descending into the nested types
RECURSIVE StatsMessages_Nested(_, _)
StatsMessages_Nested(stats, messages) ==
    IF messages = <<>> THEN stats
    ELSE StatsMessages_Nested(
           StatsMessages_Nested([stats EXCEPT !.NumMessages = @ + 1,
                                              !.NumFields = @ + Len(Head(messages).field)],
                                Head(messages).nestedType),
           Tail(messages))

\* for _, msg := range f.GetMessageType()
RECURSIVE StatsMessages(_, _)
StatsMessages(stats, messages) ==
    IF messages = <<>> THEN stats
    ELSE StatsMessages([stats EXCEPT !.NumMessages = @ + 1,
                                     !.NumFields = @ + Len(Head(messages).field)],
                       Tail(messages))

\* for _, f := range req.GetProtoFile()
RECURSIVE StatsFiles(_, _)
StatsFiles(stats, files) ==
    IF files = <<>> THEN stats
    ELSE StatsFiles(StatsMessages(StatsServices([stats EXCEPT !.NumFiles = @ + 1],
                                                Head(files).service),
                                  Head(files).messageType),
                    Tail(files))

StatsText(stats) ==
    << "stats for code generation request",
       "num files: " \o FormatInt(stats.NumFiles),
       "num services: " \o FormatInt(stats.NumServices),
       "num methods: " \o FormatInt(stats.NumMethods),
       "num messages: " \o FormatInt(stats.NumMessages),
       "num fields: " \o FormatInt(stats.NumFields) >>

recordStats(r) == GeneratedFile("request_stats.txt", StatsText(StatsFiles(ZeroStats, r)))

(***************************************************************************)
(* generateGraph: the names and the lines it writes                        *)
(***************************************************************************)
Node(id, shape) == [id |-> id, shape |-> shape]
Edge(from, to, attr) == [from |-> from, to |-> to, attr |-> attr]

\* fmt.Sprintf(".%s.%s", f.GetPackage(), srv.GetName())
QService(f, srv) == "." \o f.package \o "." \o srv.name
\* fmt.Sprintf("%s.%s", qService, meth.GetName())
QMethod(qService, meth) == qService \o "." \o meth.name
\* FilePrefix without the leading dot
FilePrefix_NoDot(f) == f.package

\* fmt.Sprintf(".%s", f.GetPackage())
FilePrefix(f) == "." \o f.package
\* fmt.Sprintf("%s.%s", prefix, dp.GetName())
QMessage(prefix, dp) == prefix \o "." \o dp.name

MethodEdges(qService, meth) ==
    << Edge(qService, QMethod(qService, meth), "style=dashed"),
       Edge(QMethod(qService, meth), meth.inputType, "style=dashed, color=red"),
       Edge(QMethod(qService, meth), meth.outputType, "style=dashed, color=blue") >>

\* FieldEdges without the test of the field's type
RECURSIVE FieldEdges_AnyType(_, _)
FieldEdges_AnyType(qName, fields) ==
    IF fields = <<>> THEN <<>>
    ELSE (IF Head(fields).typeName # ""
          THEN << [from |-> qName, to |-> Head(fields).typeName, attr |-> ""] >>
          ELSE <<>>)
         \o FieldEdges_AnyType(qName, Tail(fields))

\* FieldEdges scanning the fields from the last to the first
RECURSIVE FieldEdges_Reversed(_, _)
FieldEdges_Reversed(qName, fields) ==
    IF fields = <<>> THEN <<>>
    ELSE FieldEdges_Reversed(qName, Tail(fields))
         \o (IF Head(fields).type = "TYPE_MESSAGE" /\ Head(fields).typeName # ""
             THEN << [from |-> qName, to |-> Head(fields).typeName, attr |-> ""] >>
             ELSE <<>>)

\* for _, field := range dp.GetField()
RECURSIVE FieldEdges(_, _)
FieldEdges(qName, fields) ==
    IF fields = <<>> THEN <<>>
    ELSE (IF Head(fields).type = "TYPE_MESSAGE" /\ Head(fields).typeName # ""
          THEN << Edge(qName, Head(fields).typeName, "") >>
          ELSE <<>>)
         \o FieldEdges(qName, Tail(fields))

GraphText(nodes, edges) ==
    [header |-> "digraph entities {", nodes |-> nodes, edges |-> edges, trailer |-> "}"]

(***************************************************************************)
(* State                                                                   *)
(***************************************************************************)
VARIABLES
    stdin,      \* the bytes the host pipes in
    stdout,     \* what has been written to standard output
    pc,         \* position of the process in main / processRequest
    b,          \* main: the bytes read
    req,        \* main: the decoded request
    resp,       \* processRequest: the response under construction
    outBytes,   \* main: the encoded response
    nodeBuf,    \* generateGraph: node declarations
    vertexBuf,  \* generateGraph: edge declarations
    fi,         \* generateGraph: index of the file being walked
    si,         \* generateGraph: index of the service being walked
    mi,         \* generateGraph: index of the method being walked, 0 outside a service
    ti,         \* generateGraph: index of the top-level message being walked
    stack,      \* generateGraphMessages: the active calls, innermost last
    visited,    \* history: the message occurrences generateGraphMessages was called on
    completed,  \* history: the stages of this invocation that succeeded
    run,        \* number of the current invocation of processRequest
    returned    \* history: the responses earlier invocations returned

ioVars == <<stdin, stdout, b, outBytes>>
graphVars == <<nodeBuf, vertexBuf, fi, si, mi, ti, stack, visited>>
runVars == <<run, returned>>
vars == <<stdin, stdout, pc, b, req, resp, outBytes, nodeBuf, vertexBuf,
          fi, si, mi, ti, stack, visited, completed, run, returned>>

ZeroRequest == <<>>
ZeroResponse == [supportedFeatures |-> 0, file |-> <<>>]
FEATURE_PROTO3_OPTIONAL == 1

Init ==
    /\ stdin \in {Marshal(r) : r \in Requests} \cup {Garbage}
    /\ stdout = <<>>
    /\ pc = "main"
    /\ b = <<>>
    /\ req = ZeroRequest
    /\ resp = ZeroResponse
    /\ outBytes = <<>>
    /\ nodeBuf = <<>>
    /\ vertexBuf = <<>>
    /\ fi = 1 /\ si = 1 /\ mi = 0 /\ ti = 1
    /\ stack = <<>>
    /\ visited = <<>>
    /\ completed = {}
    /\ run = 1
    /\ returned = <<>>

(***************************************************************************)
(* main                                                                    *)
(***************************************************************************)
\* io.ReadAll(os.Stdin) succeeds
ReadOk ==
    /\ pc = "main"
    /\ b' = stdin
    /\ completed' = completed \cup {"read"}
    /\ pc' = "unmarshal"
    /\ UNCHANGED <<stdin, stdout, outBytes, req, resp, graphVars, runVars>>

\* io.ReadAll(os.Stdin) fails: log.Fatal
ReadFail ==
    /\ pc = "main"
    /\ pc' = "fatal"
    /\ UNCHANGED <<ioVars, req, resp, graphVars, completed, runVars>>

UnmarshalOk ==
    /\ pc = "unmarshal"
    /\ Decodable(b)
    /\ req' = Unmarshal(b)
    /\ completed' = completed \cup {"decode"}
    /\ pc' = "processRequest"
    /\ UNCHANGED <<ioVars, resp, graphVars, runVars>>

\* UnmarshalFail with the error dropped: main goes on with the zero request
UnmarshalFail_Ignored ==
    /\ pc = "unmarshal"
    /\ ~Decodable(b)
    /\ pc' = "processRequest"
    /\ UNCHANGED <<ioVars, req, resp, graphVars, completed, runVars>>

UnmarshalFail ==
    /\ pc = "unmarshal"
    /\ ~Decodable(b)
    /\ pc' = "fatal"
    /\ UNCHANGED <<ioVars, req, resp, graphVars, completed, runVars>>

(***************************************************************************)
(* processRequest                                                          *)
(***************************************************************************)
ProcessRequestEntry ==
    /\ pc = "processRequest"
    /\ resp' = [supportedFeatures |-> FEATURE_PROTO3_OPTIONAL, file |-> <<>>]
    /\ pc' = "recordRequest"
    /\ UNCHANGED <<ioVars, req, graphVars, completed, runVars>>

RecordRequest ==
    /\ pc = "recordRequest"
    /\ resp' = [resp EXCEPT !.file = Append(@, recordRequest(req))]
    /\ completed' = completed \cup {"dump"}
    /\ pc' = "recordStats"
    /\ UNCHANGED <<ioVars, req, graphVars, runVars>>

\* RecordStats without the append of the stats file to the response
RecordStats_NoAppend ==
    /\ pc = "recordStats"
    /\ completed' = completed \cup {"stats"}
    /\ pc' = "generateGraph"
    /\ UNCHANGED <<ioVars, req, resp, graphVars, runVars>>

RecordStats ==
    /\ pc = "recordStats"
    /\ resp' = [resp EXCEPT !.file = Append(@, recordStats(req))]
    /\ completed' = completed \cup {"stats"}
    /\ pc' = "generateGraph"
    /\ UNCHANGED <<ioVars, req, graphVars, runVars>>

(***************************************************************************)
(* generateGraph                                                           *)
(***************************************************************************)
\* GenerateGraphStart with the two buffers kept at package level
GenerateGraphStart_SharedBuffers ==
    /\ pc = "generateGraph"
    /\ fi' = 1 /\ si' = 1 /\ mi' = 0 /\ ti' = 1
    /\ stack' = <<>>
    /\ visited' = <<>>
    /\ pc' = "graph"
    /\ UNCHANGED <<ioVars, req, resp, nodeBuf, vertexBuf, completed, runVars>>

GenerateGraphStart ==
    /\ pc = "generateGraph"
    /\ nodeBuf' = <<>>
    /\ vertexBuf' = <<>>
    /\ fi' = 1 /\ si' = 1 /\ mi' = 0 /\ ti' = 1
    /\ stack' = <<>>
    /\ visited' = <<>>
    /\ pc' = "graph"
    /\ UNCHANGED <<ioVars, req, resp, completed, runVars>>

InFile == pc = "graph" /\ fi <= Len(req)

\* one iteration of the service loop up to the method loop
GraphService ==
    /\ InFile
    /\ mi = 0
    /\ si <= Len(req[fi].service)
    /\ LET srv == req[fi].service[si] IN
         /\ nodeBuf' = Append(nodeBuf, Node(QService(req[fi], srv), "diamond"))
         /\ IF Len(srv.method) = 0
            THEN si' = si + 1 /\ mi' = 0
            ELSE si' = si /\ mi' = 1
    /\ UNCHANGED <<ioVars, pc, req, resp, vertexBuf, fi, ti, stack, visited,
                   completed, runVars>>

\* one iteration of the method loop
GraphMethod ==
    /\ InFile
    /\ mi >= 1
    /\ LET srv == req[fi].service[si]
           meth == srv.method[mi]
           qService == QService(req[fi], srv) IN
         /\ nodeBuf' = Append(nodeBuf, Node(QMethod(qService, meth), "circle"))
         /\ vertexBuf' = vertexBuf \o MethodEdges(qService, meth)
         /\ IF mi = Len(srv.method)
            THEN si' = si + 1 /\ mi' = 0
            ELSE si' = si /\ mi' = mi + 1
    /\ UNCHANGED <<ioVars, pc, req, resp, fi, ti, stack, visited, completed, runVars>>

\* the body of generateGraphMessages up to its loop over the nested types
Frame(dp, prefix) == [dp |-> dp, qName |-> QMessage(prefix, dp), child |-> 1]

\* EnterMessage declaring a node only when its identifier is new
EnterMessage_Dedup(dp, prefix, path) ==
    /\ nodeBuf' = IF \E i \in 1..Len(nodeBuf) : nodeBuf[i].id = QMessage(prefix, dp)
                  THEN nodeBuf
                  ELSE Append(nodeBuf, Node(QMessage(prefix, dp), "square"))
    /\ vertexBuf' = vertexBuf \o FieldEdges(QMessage(prefix, dp), dp.field)
    /\ stack' = Append(stack, Frame(dp, prefix))
    /\ visited' = Append(visited, path)

EnterMessage(dp, prefix, path) ==
    /\ nodeBuf' = Append(nodeBuf, Node(QMessage(prefix, dp), "square"))
    /\ vertexBuf' = vertexBuf \o FieldEdges(QMessage(prefix, dp), dp.field)
    /\ stack' = Append(stack, Frame(dp, prefix))
    /\ visited' = Append(visited, path)

\* generateGraph calls generateGraphMessages on a top-level message
GraphCallMessage ==
    /\ InFile
    /\ mi = 0
    /\ si > Len(req[fi].service)
    /\ stack = <<>>
    /\ ti <= Len(req[fi].messageType)
    /\ EnterMessage(req[fi].messageType[ti], FilePrefix(req[fi]), <<fi, 1, ti>>)
    /\ UNCHANGED <<ioVars, pc, req, resp, fi, si, mi, ti, completed, runVars>>

ChildPath == <<fi, 1, ti>> \o [k \in 1..Len(stack) |-> stack[k].child]

\* GraphCallChild recursing on dp itself instead of the child, until the
\* stack is exhausted
GraphCallChild_Self ==
    /\ pc = "graph"
    /\ stack # <<>>
    /\ Len(stack) < MaxSize + 2
    /\ LET top == stack[Len(stack)] IN
         /\ top.child <= Len(top.dp.nestedType)
         /\ EnterMessage(top.dp, top.qName, ChildPath)
    /\ UNCHANGED <<ioVars, pc, req, resp, fi, si, mi, ti, completed, runVars>>

\* generateGraphMessages calls itself on the next nested type
GraphCallChild ==
    /\ pc = "graph"
    /\ stack # <<>>
    /\ LET top == stack[Len(stack)] IN
         /\ top.child <= Len(top.dp.nestedType)
         /\ EnterMessage(top.dp.nestedType[top.child], top.qName, ChildPath)
    /\ UNCHANGED <<ioVars, pc, req, resp, fi, si, mi, ti, completed, runVars>>

\* generateGraphMessages returns to its caller, whose loop advances
GraphReturn ==
    /\ pc = "graph"
    /\ stack # <<>>
    /\ LET top == stack[Len(stack)]
           rest == SubSeq(stack, 1, Len(stack) - 1) IN
         /\ top.child > Len(top.dp.nestedType)
         /\ IF rest = <<>>
            THEN stack' = <<>> /\ ti' = ti + 1
            ELSE /\ stack' = [rest EXCEPT ![Len(rest)].child = @ + 1]
                 /\ ti' = ti
    /\ UNCHANGED <<ioVars, pc, req, resp, nodeBuf, vertexBuf, fi, si, mi, visited,
                   completed, runVars>>

\* the loop over the files moves on
GraphNextFile ==
    /\ InFile
    /\ mi = 0
    /\ si > Len(req[fi].service)
    /\ stack = <<>>
    /\ ti > Len(req[fi].messageType)
    /\ fi' = fi + 1 /\ si' = 1 /\ ti' = 1
    /\ UNCHANGED <<ioVars, pc, req, resp, nodeBuf, vertexBuf, mi, stack, visited,
                   completed, runVars>>

\* generateGraph returns its file and processRequest returns the response
GraphFinish ==
    /\ pc = "graph"
    /\ fi > Len(req)
    /\ resp' = [resp EXCEPT !.file =
                  Append(@, GeneratedFile("entity_graph.dot", GraphText(nodeBuf, vertexBuf)))]
    /\ completed' = completed \cup {"graph"}
    /\ pc' = "returned"
    /\ UNCHANGED <<ioVars, req, graphVars, runVars>>

(***************************************************************************)
(* main, after processRequest                                              *)
(***************************************************************************)
MarshalOk ==
    /\ pc = "returned"
    /\ outBytes' = Marshal(resp)
    /\ completed' = completed \cup {"encode"}
    /\ pc' = "write"
    /\ UNCHANGED <<stdin, stdout, b, req, resp, graphVars, runVars>>

MarshalFail ==
    /\ pc = "returned"
    /\ pc' = "fatal"
    /\ UNCHANGED <<ioVars, req, resp, graphVars, completed, runVars>>

WriteOk ==
    /\ pc = "write"
    /\ stdout' = Append(stdout, outBytes)
    /\ pc' = "exit"
    /\ UNCHANGED <<stdin, b, outBytes, req, resp, graphVars, completed, runVars>>

\* os.Stdout.Write fails, possibly after a short write
WriteFail ==
    /\ pc = "write"
    /\ \E short \in BOOLEAN :
         stdout' = IF short THEN Append(stdout, <<"short", outBytes>>) ELSE stdout
    /\ pc' = "fatal"
    /\ UNCHANGED <<stdin, b, outBytes, req, resp, graphVars, completed, runVars>>

\* processRequest is invoked once more on the same request, in the same
\* process: nothing is reset but what the code itself initialises
Reinvoke ==
    /\ pc = "returned"
    /\ run < MaxRuns
    /\ returned' = Append(returned, resp)
    /\ run' = run + 1
    /\ pc' = "processRequest"
    /\ UNCHANGED <<ioVars, req, resp, graphVars, completed>>


(***************************************************************************)
(* The elements of a request, named by their position.  A service is       *)
(* <<f, 0, s>>, a method <<f, 0, s, m>>, a message <<f, 1, t, c1, ..., cn>> *)
(* (top-level message t of file f, then child indices).  An edge is named  *)
(* by the element that causes it: <<f, 0, s, m, e>> is edge e of a method, *)
(* and a message's key followed by <<0, j>> is the edge of its field j.    *)
(* The lexicographic order on the keys, a prefix first, is the pre-order   *)
(* walk: files in order, services with their methods before messages, a    *)
(* message before its fields' edges, those before its nested messages.     *)
(***************************************************************************)
Count(seq, x) == Cardinality({i \in DOMAIN seq : seq[i] = x})
Front(seq) == SubSeq(seq, 1, Len(seq) - 1)

ServiceKeys(r) ==
    UNION { {<<f, 0, s>> : s \in 1..Len(r[f].service)} : f \in 1..Len(r) }

MethodKeys(r) ==
    UNION { {k \o <<m>> : m \in 1..Len(r[k[1]].service[k[3]].method)} : k \in ServiceKeys(r) }

RECURSIVE SubPaths(_)
SubPaths(dp) ==
    {<<>>} \cup UNION { {<<c>> \o p : p \in SubPaths(dp.nestedType[c])}
                        : c \in 1..Len(dp.nestedType) }

MessageKeys(r) ==
    UNION { UNION { {<<f, 1, t>> \o p : p \in SubPaths(r[f].messageType[t])}
                    : t \in 1..Len(r[f].messageType) } : f \in 1..Len(r) }

TopLevelKeys(r) == {k \in MessageKeys(r) : Len(k) = 3}

RECURSIVE Descend(_, _)
Descend(dp, p) == IF p = <<>> THEN dp ELSE Descend(dp.nestedType[Head(p)], Tail(p))

MessageAt(r, k) == Descend(r[k[1]].messageType[k[3]], SubSeq(k, 4, Len(k)))
ServiceAt(r, k) == r[k[1]].service[k[3]]
MethodAt(r, k) == r[k[1]].service[k[3]].method[k[4]]

NodeKeys(r) == ServiceKeys(r) \cup MethodKeys(r) \cup MessageKeys(r)

\* the name the graph is to give an element: the parent's name, a dot, the
\* element's name, the parent of a top-level element being "." and the package
RECURSIVE QualifiedName(_, _)
QualifiedName(r, k) ==
    IF k[2] = 0
    THEN IF Len(k) = 3
         THEN ("." \o r[k[1]].package) \o "." \o ServiceAt(r, k).name
         ELSE QualifiedName(r, Front(k)) \o "." \o MethodAt(r, k).name
    ELSE IF Len(k) = 3
         THEN ("." \o r[k[1]].package) \o "." \o MessageAt(r, k).name
         ELSE QualifiedName(r, Front(k)) \o "." \o MessageAt(r, k).name

ShapeOf(k) == IF k[2] = 1 THEN "square" ELSE IF Len(k) = 3 THEN "diamond" ELSE "circle"

ExpectedNode(r, k) == [id |-> QualifiedName(r, k), shape |-> ShapeOf(k)]

EdgeField(f) == f.type = "TYPE_MESSAGE" /\ f.typeName # ""

MethodEdgeKeys(r) == {k \o <<e>> : k \in MethodKeys(r), e \in 1..3}

FieldEdgeKeys(r) ==
    UNION { {k \o <<0, j>> : j \in {i \in 1..Len(MessageAt(r, k).field) :
                                     EdgeField(MessageAt(r, k).field[i])}}
            : k \in MessageKeys(r) }

EdgeKeys(r) == MethodEdgeKeys(r) \cup FieldEdgeKeys(r)

ExpectedEdge(r, k) ==
    IF k[2] = 0
    THEN LET m == SubSeq(k, 1, 4) IN
         CASE k[5] = 1 -> [from |-> QualifiedName(r, SubSeq(k, 1, 3)),
                           to |-> QualifiedName(r, m), attr |-> "style=dashed"]
           [] k[5] = 2 -> [from |-> QualifiedName(r, m), to |-> MethodAt(r, m).inputType,
                           attr |-> "style=dashed, color=red"]
           [] k[5] = 3 -> [from |-> QualifiedName(r, m), to |-> MethodAt(r, m).outputType,
                           attr |-> "style=dashed, color=blue"]
    ELSE LET m == SubSeq(k, 1, Len(k) - 2) IN
         [from |-> QualifiedName(r, m), to |-> MessageAt(r, m).field[k[Len(k)]].typeName,
          attr |-> ""]

\* a comes before b in the pre-order walk
RECURSIVE Before(_, _)
Before(k1, k2) ==
    IF k1 = <<>> THEN k2 # <<>>
    ELSE IF k2 = <<>> THEN FALSE
    ELSE IF Head(k1) # Head(k2) THEN Head(k1) < Head(k2)
    ELSE Before(Tail(k1), Tail(k2))

Rank(k, K) == 1 + Cardinality({j \in K : Before(j, k)})

Returned == pc = "returned"
Graph == resp.file[3].content

Next ==
    \/ ReadOk \/ ReadFail \/ UnmarshalOk \/ UnmarshalFail
    \/ ProcessRequestEntry \/ RecordRequest \/ RecordStats
    \/ GenerateGraphStart \/ GraphService \/ GraphMethod
    \/ GraphCallMessage \/ GraphCallChild \/ GraphReturn \/ GraphNextFile
    \/ GraphFinish
    \/ MarshalOk \/ MarshalFail \/ WriteOk \/ WriteFail
    \/ Reinvoke

Spec == Init /\ [][Next]_vars

\* the process is scheduled until it exits
FairSpec == Spec /\ WF_vars(Next)

(***************************************************************************)
(* Properties                                                              *)
(***************************************************************************)

\* C1: when processRequest returns, the response holds exactly three files,
\* named request_dump.json, request_stats.txt and entity_graph.dot in this
\* order, whatever the request (the request without files included).
C1_ThreeFilesInOrder ==
    Returned =>
        /\ Len(resp.file) = 3
        /\ resp.file[1].name = "request_dump.json"
        /\ resp.file[2].name = "request_stats.txt"
        /\ resp.file[3].name = "entity_graph.dot"
        /\ resp.file[1] = recordRequest(req)

C1_Witness ==
    /\ Returned
    /\ req = ZeroRequest
    /\ Decodable(b)
    /\ Len(resp.file) = 3

\* C2: the stats report states the number of files, the number of services
\* of all files, the number of methods of all services, the number of
\* top-level messages and the number of fields declared directly in the
\* top-level messages; nested messages and their fields are not counted.
ExpectedStats(r) ==
    [NumFiles |-> Len(r),
     NumServices |-> Cardinality(ServiceKeys(r)),
     NumMethods |-> Cardinality(MethodKeys(r)),
     NumMessages |-> Cardinality(TopLevelKeys(r)),
     NumFields |-> Cardinality(UNION { {<<k, j>> : j \in 1..Len(MessageAt(r, k).field)}
                                       : k \in TopLevelKeys(r) })]

C2_StatsArithmetic ==
    Len(resp.file) >= 2 => resp.file[2].content = StatsText(ExpectedStats(req))

C2_Witness ==
    /\ Len(resp.file) >= 2
    /\ \E k \in MessageKeys(req) : Len(k) > 3 /\ MessageAt(req, k).field # <<>>
    /\ MethodKeys(req) # {}
    /\ resp.file[2].content[5] = "num messages: 5"

\* C3: the node section holds exactly one declaration for each service
\* (diamond), each method (circle) and each message occurrence at any depth
\* (square), under the parent's qualified name, a dot and the element's
\* name: as a multiset it is the image of the elements of the request.
C3_OneNodePerElement ==
    Returned =>
        /\ Len(Graph.nodes) = Cardinality(NodeKeys(req))
        /\ \A k \in NodeKeys(req) :
              Count(Graph.nodes, ExpectedNode(req, k)) =
              Cardinality({j \in NodeKeys(req) : ExpectedNode(req, j) = ExpectedNode(req, k)})

C3_Witness ==
    /\ Returned
    /\ \E k \in MessageKeys(req) : Len(k) = 5
    /\ MethodKeys(req) # {}
    /\ Len(Graph.nodes) = Cardinality(NodeKeys(req))

\* C4: the edge section holds exactly three edges for each method and one
\* edge for each field, of a message at any depth, whose type is
\* TYPE_MESSAGE and whose type name is not empty, and no other edge: as a
\* multiset it is the image of these methods and fields.
C4_EdgesPerMethodAndField ==
    Returned =>
        /\ Len(Graph.edges) = 3 * Cardinality(MethodKeys(req))
                              + Cardinality(FieldEdgeKeys(req))
        /\ \A k \in EdgeKeys(req) :
              Count(Graph.edges, ExpectedEdge(req, k)) =
              Cardinality({j \in EdgeKeys(req) : ExpectedEdge(req, j) = ExpectedEdge(req, k)})

C4_Witness ==
    /\ Returned
    /\ MethodKeys(req) # {}
    /\ \E k \in MessageKeys(req) :
          /\ Len(k) > 3
          /\ \E j \in 1..Len(MessageAt(req, k).field) :
                /\ MessageAt(req, k).field[j].type = "TYPE_ENUM"
                /\ MessageAt(req, k).field[j].typeName # ""
    /\ \E k \in MessageKeys(req) :
          \E j \in 1..Len(MessageAt(req, k).field) :
             MessageAt(req, k).field[j] = Field("TYPE_MESSAGE", "")
    /\ \E k \in FieldEdgeKeys(req) : Len(k) > 5

\* C5 as stated: no node identifier is declared twice.
C5_NoDuplicateNodes ==
    Returned =>
        \A i, j \in 1..Len(Graph.nodes) : i # j => Graph.nodes[i].id # Graph.nodes[j].id

\* C5: an identifier is declared once for each element that has it as its
\* qualified name; it is declared once exactly when no other element of
\* the request has the same qualified name.
C5_OneDeclarationPerElement ==
    Returned =>
        \A k \in NodeKeys(req) :
           Cardinality({i \in 1..Len(Graph.nodes) : Graph.nodes[i].id = QualifiedName(req, k)})
           = Cardinality({j \in NodeKeys(req) : QualifiedName(req, j) = QualifiedName(req, k)})

C5_Witness ==
    /\ Returned
    /\ \E k, j \in NodeKeys(req) : k # j /\ QualifiedName(req, k) = QualifiedName(req, j)
    /\ \E k \in NodeKeys(req) :
          Cardinality({i \in 1..Len(Graph.nodes) : Graph.nodes[i].id = QualifiedName(req, k)}) = 1

\* C6: when every type reference of the request is the canonical name of
\* a message of the request, every edge leads to a declared node: an edge
\* from a service to a declared method node, any other edge to a declared
\* square node.
RECURSIVE PathName(_, _)
PathName(r, k) ==
    IF Len(k) = 3 THEN MessageAt(r, k).name
    ELSE PathName(r, Front(k)) \o "." \o MessageAt(r, k).name

MessageNames(r) == {CanonicalName(r[k[1]].package, PathName(r, k)) : k \in MessageKeys(r)}

Resolved(r) ==
    /\ \A k \in MethodKeys(r) :
          MethodAt(r, k).inputType \in MessageNames(r)
          /\ MethodAt(r, k).outputType \in MessageNames(r)
    /\ \A k \in MessageKeys(r) :
          \A j \in 1..Len(MessageAt(r, k).field) :
             MessageAt(r, k).field[j].type = "TYPE_MESSAGE"
                => MessageAt(r, k).field[j].typeName \in MessageNames(r)

Declared(shape) == {Graph.nodes[i].id : i \in {n \in 1..Len(Graph.nodes) : Graph.nodes[n].shape = shape}}

C6_EdgeTargetsDeclared ==
    (Returned /\ Resolved(req)) =>
        \A i \in 1..Len(Graph.edges) :
           IF Graph.edges[i].attr = "style=dashed"
           THEN Graph.edges[i].to \in Declared("circle")
           ELSE Graph.edges[i].to \in Declared("square")

\* C7: the node declarations and the edge declarations each appear in the
\* order of the pre-order walk of the request, while the walk runs and when
\* it has ended: the i-th line is the line of the i-th element in that order.
C7_PreOrder ==
    /\ pc = "graph" =>
          /\ \A k \in NodeKeys(req) :
                Rank(k, NodeKeys(req)) <= Len(nodeBuf) =>
                   nodeBuf[Rank(k, NodeKeys(req))] = ExpectedNode(req, k)
          /\ \A k \in EdgeKeys(req) :
                Rank(k, EdgeKeys(req)) <= Len(vertexBuf) =>
                   vertexBuf[Rank(k, EdgeKeys(req))] = ExpectedEdge(req, k)
    /\ Returned =>
          /\ Graph.nodes = [i \in 1..Cardinality(NodeKeys(req)) |->
                              ExpectedNode(req, CHOOSE k \in NodeKeys(req) :
                                                   Rank(k, NodeKeys(req)) = i)]
          /\ Graph.edges = [i \in 1..Cardinality(EdgeKeys(req)) |->
                              ExpectedEdge(req, CHOOSE k \in EdgeKeys(req) :
                                                   Rank(k, EdgeKeys(req)) = i)]

C7_Witness ==
    /\ Returned
    /\ Len(req) = 2
    /\ \E k \in MethodKeys(req) : k[1] = 1 /\ k[3] = 2 /\ k[4] = 2
    /\ \E k \in MessageKeys(req) : k[1] = 1 /\ Len(k) = 4
    /\ \E k \in MessageKeys(req) : k[1] = 2 /\ Len(k) = 5
    /\ \E k \in MessageKeys(req) : k[1] = 2 /\ Len(k) = 4 /\ k[4] = 2
    /\ Len(Graph.edges) > 12

\* C8: nothing reaches standard output before the read, the decode, the
\* three generators and the encode have all succeeded; a failure of one of
\* them ends the invocation with standard output empty; input that does not
\* decode leaves standard output empty; and after a fatal error nothing
\* happens any more.
Stages == {"read", "decode", "dump", "stats", "graph", "encode"}

C8_AbortWithoutOutput ==
    /\ [](/\ stdout # <<>> => (Stages \subseteq completed /\ Decodable(stdin))
          /\ (pc = "fatal" /\ ~(Stages \subseteq completed)) => stdout = <<>>
          /\ ~Decodable(stdin) => (stdout = <<>> /\ resp.file = <<>>))
    /\ [][pc = "fatal" => pc' = "fatal"]_vars

C8_Witness ==
    /\ pc = "fatal"
    /\ ~Decodable(stdin)
    /\ completed = {"read"}
    /\ stdout = <<>>

\* C9: a second invocation of processRequest on the same request returns
\* the same response as the first: the same feature mask, the same file
\* names in the same order, the same stats and graph contents.
SameResponse(r1, r2) ==
    /\ r1.supportedFeatures = r2.supportedFeatures
    /\ Len(r1.file) = Len(r2.file)
    /\ \A i \in 1..Len(r1.file) : r1.file[i].name = r2.file[i].name
    /\ \A i \in 2..Len(r1.file) : r1.file[i].content = r2.file[i].content

C9_Determinism ==
    Returned =>
        /\ resp.supportedFeatures = FEATURE_PROTO3_OPTIONAL
        /\ \A i \in 1..Len(returned) : SameResponse(returned[i], resp)

C9_Witness ==
    /\ Returned
    /\ run = MaxRuns
    /\ Len(returned) = run - 1
    /\ Len(Graph.nodes) > 2
    /\ Len(Graph.edges) > 2

\* C10: the walk of generateGraph always ends, also when the type
\* references form cycles, and it has then called generateGraphMessages
\* exactly once on every message occurrence.
VisitedOnce ==
    /\ Len(visited) = Cardinality(MessageKeys(req))
    /\ \A k \in MessageKeys(req) : Count(visited, k) = 1

C10_WalkTerminates == (pc = "graph") ~> (Returned /\ VisitedOnce)

RefersTo(r, k, j) ==
    \E i \in 1..Len(MessageAt(r, k).field) :
       /\ MessageAt(r, k).field[i].type = "TYPE_MESSAGE"
       /\ MessageAt(r, k).field[i].typeName = CanonicalName(r[j[1]].package, PathName(r, j))

C10_Witness ==
    /\ Returned
    /\ VisitedOnce
    /\ \E k \in MessageKeys(req) : RefersTo(req, k, k)
    /\ \E k, j \in MessageKeys(req) : k # j /\ RefersTo(req, k, j) /\ RefersTo(req, j, k)
    /\ \E k \in MessageKeys(req) : Len(k) > 3

====
